---- MODULE Spec2Model ----
(***************************************************************************)
(* Model of the PurFacted Python SDK example (static/api/examples/         *)
(* python.py): a client object holding an API key and a base URL, one      *)
(* method per API operation, all routed through _request, which issues one *)
(* HTTP call, decodes the JSON body and unwraps the success/error envelope.*)
(*                                                                         *)
(* Python values are tagged tuples so that values of different Python      *)
(* types can be compared: <<"none">>, <<"str", s>>, <<"int", n>>,          *)
(* <<"bool", b>>, <<"list", seq>>, <<"dict", f>> (f a function on keys).   *)
(***************************************************************************)
EXTENDS Integers, Sequences, FiniteSets, TLC

VARIABLES api_key, base_url, session_headers, ctor,
          calls, sent, last_call, last_request, response, outcome

vars == <<api_key, base_url, session_headers, ctor,
          calls, sent, last_call, last_request, response, outcome>>

(* Number of operation invocations explored in one behaviour. *)
MaxCalls == 2

(***************************************************************************)
(* Python values                                                           *)
(***************************************************************************)
PyNone == <<"none">>
PyStr(s) == <<"str", s>>
PyInt(n) == <<"int", n>>
PyBool(b) == <<"bool", b>>
PyList(s) == <<"list", s>>
PyDict(f) == <<"dict", f>>

(* The empty mapping {} . *)
EmptyDict == <<>>

(* A keyword argument the caller did not pass: the signature's default     *)
(* applies.                                                                *)
Missing == <<"missing">>

Default(arg, d) == IF arg = Missing THEN d ELSE arg

IsDict(v) == v[1] = "dict"

(* Python truth value testing, as used by `if q:` and `not data.get(..)`. *)
Truthy(v) ==
    CASE v[1] = "none" -> FALSE
      [] v[1] = "bool" -> v[2]
      [] v[1] = "int"  -> v[2] # 0
      [] v[1] = "str"  -> v[2] # ""
      [] v[1] = "list" -> Len(v[2]) # 0
      [] v[1] = "dict" -> DOMAIN v[2] # {}

(* dict.get(key, default) on the mapping f. *)
Get(f, key, default) == IF key \in DOMAIN f THEN f[key] ELSE default

(* d[key] = value on the mapping f (insertion or overwrite). *)
SetItem(f, key, value) == (key :> value) @@ f

(***************************************************************************)
(* Outcomes of the transport and of an operation                           *)
(***************************************************************************)
(* session.request / response.json raised the exception named e. *)
Fault(e) == <<"fault", e>>
(* response.json() returned the decoded value j. *)
Decoded(j) == <<"json", j>>

Return(v) == <<"return", v>>
Raise(exc) == <<"raise", exc>>

PurFactedError(code, message) ==
    [type |-> "PurFactedError", code |-> code, message |-> message]

(* An exception that is not the client's typed error. *)
OtherError(name) == [type |-> name]

(* data.get / error.get on a value that is not a mapping. *)
AttributeError == OtherError("AttributeError")

(***************************************************************************)
(* Construction                                                            *)
(***************************************************************************)
DefaultBaseUrl == "https://purfacted.com/api/v1"

ApiKeys == {"key_A", "key_B"}
BaseUrlArgs == {Missing, PyStr("http://localhost:3000/api/v1")}

(* PurFactedClient.__init__: the state after construction. *)
Init ==
    \E key \in ApiKeys, base \in BaseUrlArgs :
        /\ ctor = [api_key |-> key, base_url |-> Default(base, PyStr(DefaultBaseUrl))[2]]
        /\ api_key = key
        /\ base_url = Default(base, PyStr(DefaultBaseUrl))[2]
        /\ session_headers = ("X-API-Key" :> key) @@ ("Content-Type" :> "application/json")
        /\ calls = 0
        /\ sent = 0
        /\ last_call = [op |-> "", endpoint |-> "", args |-> EmptyDict]
        /\ last_request = [method |-> "", url |-> "", headers |-> EmptyDict, kwargs |-> EmptyDict]
        /\ response = PyNone
        /\ outcome = PyNone

(***************************************************************************)
(* The transport: what session.request(...) / response.json() can yield    *)
(***************************************************************************)
(* ConnectionError is raised by session.request, JSONDecodeError by        *)
(* response.json().                                                        *)
TransportFaults == {"ConnectionError", "JSONDecodeError"}

(* An envelope with the keys whose value is not Missing. *)
Envelope(success, data, error) ==
    LET e0 == EmptyDict
        e1 == IF success = Missing THEN e0 ELSE SetItem(e0, "success", success)
        e2 == IF data = Missing THEN e1 ELSE SetItem(e1, "data", data)
        e3 == IF error = Missing THEN e2 ELSE SetItem(e2, "error", error)
    IN  PyDict(e3)

Payload == PyDict("facts" :> PyList(<<PyDict(("title" :> PyStr("X")) @@ ("status" :> PyStr("PROVEN")))>>))

ErrCode == PyStr("RATE_LIMITED")
ErrMessage == PyStr("Too many requests")
FullError == PyDict(("code" :> ErrCode) @@ ("message" :> ErrMessage))
PartialErrors == {PyDict(EmptyDict), PyDict("code" :> ErrCode), PyDict("message" :> ErrMessage)}

Envelopes ==
    (* success true, or truthy without being a boolean *)
    {Envelope(PyBool(TRUE), d, Missing) : d \in {Missing, Payload}}
    \cup {Envelope(PyBool(TRUE), Payload, FullError), Envelope(PyInt(1), Payload, Missing)}
    (* success false *)
    \cup {Envelope(PyBool(FALSE), d, FullError) : d \in {Missing, Payload}}
    \cup {Envelope(PyBool(FALSE), Missing, e) : e \in PartialErrors \cup {Missing, PyNone}}
    (* success missing, null or falsy without being a boolean *)
    \cup {Envelope(Missing, Payload, Missing), Envelope(PyNone, Payload, Missing),
          Envelope(PyInt(0), Missing, FullError)}

TransportOutcomes ==
    {Fault(e) : e \in TransportFaults}
    \cup {Decoded(j) : j \in Envelopes \cup {PyList(<<>>)}}

(***************************************************************************)
(* _request                                                                *)
(***************************************************************************)
(* Variant of Url: the request goes to the production endpoint whatever    *)
(* base URL the client was constructed with.                               *)
Url_Default(base, endpoint) == DefaultBaseUrl \o endpoint

(* url = f"{self.base_url}{endpoint}" *)
Url(base, endpoint) == base \o endpoint

(* Variant of ErrorOf: code and message are looked up on the envelope      *)
(* itself instead of on its error object.                                  *)
ErrorOf_TopLevel(data) ==
    PurFactedError(Get(data, "code", PyStr("UNKNOWN")),
                   Get(data, "message", PyStr("Unknown error")))

(* Variant of ErrorOf: error.get(..) without the default values. *)
ErrorOf_NoDefaults(data) ==
    LET error == Get(data, "error", PyDict(EmptyDict))
    IN  IF IsDict(error)
        THEN PurFactedError(Get(error[2], "code", PyNone),
                            Get(error[2], "message", PyNone))
        ELSE AttributeError

(* The (code, message) error built from a falsy-success envelope. *)
ErrorOf(data) ==
    LET error == Get(data, "error", PyDict(EmptyDict))
    IN  IF IsDict(error)
        THEN PurFactedError(Get(error[2], "code", PyStr("UNKNOWN")),
                            Get(error[2], "message", PyStr("Unknown error")))
        ELSE AttributeError

(* Variant of Unwrap: a successful envelope is stripped to its data        *)
(* payload before it is returned.                                          *)
Unwrap_DataOnly(resp) ==
    IF resp[1] = "fault"
    THEN Raise(OtherError(resp[2]))
    ELSE LET data == resp[2]
         IN  IF ~IsDict(data)
             THEN Raise(AttributeError)
             ELSE IF ~Truthy(Get(data[2], "success", PyNone))
                  THEN Raise(ErrorOf(data[2]))
                  ELSE Return(Get(data[2], "data", PyNone))

(* Variant of Unwrap: the transport call is wrapped in a try/except that   *)
(* reports every failure as the client's typed error.                      *)
Unwrap_CatchAll(resp) ==
    IF resp[1] = "fault"
    THEN Raise(PurFactedError(PyStr("UNKNOWN"), PyStr(resp[2])))
    ELSE LET data == resp[2]
         IN  IF ~IsDict(data)
             THEN Raise(AttributeError)
             ELSE IF ~Truthy(Get(data[2], "success", PyNone))
                  THEN Raise(ErrorOf(data[2]))
                  ELSE Return(data)

(* What _request hands to its caller for a given transport outcome. *)
Unwrap(resp) ==
    IF resp[1] = "fault"
    THEN Raise(OtherError(resp[2]))
    ELSE LET data == resp[2]
         IN  IF ~IsDict(data)
             THEN Raise(AttributeError)
             ELSE IF ~Truthy(Get(data[2], "success", PyNone))
                  THEN Raise(ErrorOf(data[2]))
                  ELSE Return(data)

(* Variant of request: a failed exchange is retried once before the        *)
(* failure is reported.                                                    *)
request_retry(method, endpoint, kwargs) ==
    \E resp \in TransportOutcomes :
        /\ last_request' = [method |-> method,
                            url |-> Url(base_url, endpoint),
                            headers |-> session_headers,
                            kwargs |-> kwargs]
        /\ sent' = sent + (IF Unwrap(resp)[1] = "raise" THEN 2 ELSE 1)
        /\ response' = resp
        /\ outcome' = Unwrap(resp)

(* One call of _request(method, endpoint, **kwargs). *)
request(method, endpoint, kwargs) ==
    \E resp \in TransportOutcomes :
        /\ last_request' = [method |-> method,
                            url |-> Url(base_url, endpoint),
                            headers |-> session_headers,
                            kwargs |-> kwargs]
        /\ sent' = sent + 1
        /\ response' = resp
        /\ outcome' = Unwrap(resp)

(* A caller invokes the method op with the given arguments. *)
Invoke(op, endpoint, args) ==
    /\ calls < MaxCalls
    /\ calls' = calls + 1
    /\ last_call' = [op |-> op, endpoint |-> endpoint, args |-> args]
    /\ UNCHANGED <<api_key, base_url, session_headers, ctor>>

(***************************************************************************)
(* Argument values                                                         *)
(***************************************************************************)
Ids == {"id1"}
Supplied(v) == {Missing, v}
WebhookUrl == PyStr("https://your-server.com/webhook")
WebhookEvents == PyList(<<PyStr("fact.status_changed")>>)

(***************************************************************************)
(* Facts API                                                               *)
(***************************************************************************)
(* Variant of SearchFactsParams: the filters are tested with `is not None` *)
(* so that an empty string is sent.                                        *)
SearchFactsParams_NotNone(q, status, category, sort, page, limit) ==
    LET p0 == ("page" :> page) @@ ("limit" :> limit)
        p1 == IF q # PyNone THEN SetItem(p0, "q", q) ELSE p0
        p2 == IF status # PyNone THEN SetItem(p1, "status", status) ELSE p1
        p3 == IF category # PyNone THEN SetItem(p2, "category", category) ELSE p2
        p4 == IF sort # PyNone THEN SetItem(p3, "sort", sort) ELSE p3
    IN  p4

SearchFactsParams(q, status, category, sort, page, limit) ==
    LET p0 == ("page" :> page) @@ ("limit" :> limit)
        p1 == IF Truthy(q) THEN SetItem(p0, "q", q) ELSE p0
        p2 == IF Truthy(status) THEN SetItem(p1, "status", status) ELSE p1
        p3 == IF Truthy(category) THEN SetItem(p2, "category", category) ELSE p2
        p4 == IF Truthy(sort) THEN SetItem(p3, "sort", sort) ELSE p3
    IN  p4

(* Calls of search_facts: every subset of the four filters with the        *)
(* pagination defaults, and calls with falsy filters or explicit           *)
(* pagination.                                                             *)
SearchFactsArgs ==
    {[q |-> q, status |-> status, category |-> category, sort |-> sort,
      page |-> Missing, limit |-> Missing] :
        q \in Supplied(PyStr("climate")), status \in Supplied(PyStr("PROVEN")),
        category \in Supplied(PyStr("science")), sort \in Supplied(PyStr("newest"))}
    \cup {[q |-> q, status |-> PyStr("PROVEN"), category |-> PyNone, sort |-> PyStr(""),
           page |-> page, limit |-> PyInt(10)] :
        q \in {PyNone, PyStr(""), PyStr("climate")}, page \in {Missing, PyInt(2)}}

search_facts ==
    \E a \in SearchFactsArgs :
        /\ Invoke("search_facts", "/facts", a)
        /\ request("GET", "/facts",
                   "params" :> PyDict(SearchFactsParams(
                       Default(a.q, PyNone), Default(a.status, PyNone),
                       Default(a.category, PyNone), Default(a.sort, PyNone),
                       Default(a.page, PyInt(1)), Default(a.limit, PyInt(20)))))

get_fact ==
    \E fact_id \in Ids :
        /\ Invoke("get_fact", "/facts/" \o fact_id, [fact_id |-> PyStr(fact_id)])
        /\ request("GET", "/facts/" \o fact_id, EmptyDict)

(***************************************************************************)
(* Sources API                                                             *)
(***************************************************************************)
(* Variant of GetSourcesParams: min_credibility is tested for truth, so a  *)
(* threshold of 0 is dropped.                                              *)
GetSourcesParams_Truthy(fact_id, source_type, min_credibility, page, limit) ==
    LET p0 == ("page" :> page) @@ ("limit" :> limit)
        p1 == IF Truthy(fact_id) THEN SetItem(p0, "factId", fact_id) ELSE p0
        p2 == IF Truthy(source_type) THEN SetItem(p1, "type", source_type) ELSE p1
        p3 == IF Truthy(min_credibility)
              THEN SetItem(p2, "minCredibility", min_credibility) ELSE p2
    IN  p3

GetSourcesParams(fact_id, source_type, min_credibility, page, limit) ==
    LET p0 == ("page" :> page) @@ ("limit" :> limit)
        p1 == IF Truthy(fact_id) THEN SetItem(p0, "factId", fact_id) ELSE p0
        p2 == IF Truthy(source_type) THEN SetItem(p1, "type", source_type) ELSE p1
        p3 == IF min_credibility # PyNone
              THEN SetItem(p2, "minCredibility", min_credibility) ELSE p2
    IN  p3

GetSourcesArgs ==
    {[fact_id |-> fact_id, source_type |-> source_type,
      min_credibility |-> min_credibility, page |-> Missing, limit |-> Missing] :
        fact_id \in Supplied(PyStr("id1")), source_type \in {PyStr(""), PyStr("ACADEMIC")},
        min_credibility \in {PyNone, PyInt(0), PyInt(50)}}
    \cup {[fact_id |-> PyStr(""), source_type |-> Missing, min_credibility |-> m,
           page |-> PyInt(3), limit |-> PyInt(5)] : m \in Supplied(PyInt(0))}

get_sources ==
    \E a \in GetSourcesArgs :
        /\ Invoke("get_sources", "/sources", a)
        /\ request("GET", "/sources",
                   "params" :> PyDict(GetSourcesParams(
                       Default(a.fact_id, PyNone), Default(a.source_type, PyNone),
                       Default(a.min_credibility, PyNone),
                       Default(a.page, PyInt(1)), Default(a.limit, PyInt(20)))))

get_source ==
    \E source_id \in Ids :
        /\ Invoke("get_source", "/sources/" \o source_id, [source_id |-> PyStr(source_id)])
        /\ request("GET", "/sources/" \o source_id, EmptyDict)

(***************************************************************************)
(* Categories API                                                          *)
(***************************************************************************)
GetCategoriesParams(q, parent, page, limit) ==
    LET p0 == ("page" :> page) @@ ("limit" :> limit)
        p1 == IF Truthy(q) THEN SetItem(p0, "q", q) ELSE p0
        p2 == IF Truthy(parent) THEN SetItem(p1, "parent", parent) ELSE p1
    IN  p2

GetCategoriesArgs ==
    {[q |-> q, parent |-> parent, page |-> Missing, limit |-> Missing] :
        q \in Supplied(PyStr("science")), parent \in {PyNone, PyStr(""), PyStr("root")}}
    \cup {[q |-> PyStr(""), parent |-> Missing, page |-> PyInt(2), limit |-> PyInt(10)]}

get_categories ==
    \E a \in GetCategoriesArgs :
        /\ Invoke("get_categories", "/categories", a)
        /\ request("GET", "/categories",
                   "params" :> PyDict(GetCategoriesParams(
                       Default(a.q, PyNone), Default(a.parent, PyNone),
                       Default(a.page, PyInt(1)), Default(a.limit, PyInt(50)))))

get_category ==
    \E category_id \in Ids :
        /\ Invoke("get_category", "/categories/" \o category_id,
                  [category_id |-> PyStr(category_id)])
        /\ request("GET", "/categories/" \o category_id, EmptyDict)

get_category_tree ==
    /\ Invoke("get_category_tree", "/categories/tree", EmptyDict)
    /\ request("GET", "/categories/tree", EmptyDict)

(***************************************************************************)
(* Trust API                                                               *)
(***************************************************************************)
get_trust_metrics ==
    \E fact_id \in Ids :
        /\ Invoke("get_trust_metrics", "/trust/" \o fact_id, [fact_id |-> PyStr(fact_id)])
        /\ request("GET", "/trust/" \o fact_id, EmptyDict)

batch_trust_metrics ==
    \E fact_ids \in {PyList(<<>>), PyList(<<PyStr("id1")>>)} :
        /\ Invoke("batch_trust_metrics", "/trust/batch", [fact_ids |-> fact_ids])
        /\ request("POST", "/trust/batch", "json" :> PyDict("factIds" :> fact_ids))

get_platform_stats ==
    /\ Invoke("get_platform_stats", "/trust/stats", EmptyDict)
    /\ request("GET", "/trust/stats", EmptyDict)

(***************************************************************************)
(* Webhooks API                                                            *)
(***************************************************************************)
list_webhooks ==
    /\ Invoke("list_webhooks", "/webhooks", EmptyDict)
    /\ request("GET", "/webhooks", EmptyDict)

create_webhook ==
    \E url \in {WebhookUrl}, events \in {WebhookEvents} :
        /\ Invoke("create_webhook", "/webhooks", [url |-> url, events |-> events])
        /\ request("POST", "/webhooks",
                   "json" :> PyDict(("url" :> url) @@ ("events" :> events)))

get_webhook ==
    \E webhook_id \in Ids :
        /\ Invoke("get_webhook", "/webhooks/" \o webhook_id,
                  [webhook_id |-> PyStr(webhook_id)])
        /\ request("GET", "/webhooks/" \o webhook_id, EmptyDict)

(* Variant of UpdateWebhookBody: all three fields are always written, an   *)
(* untouched one as null.                                                  *)
UpdateWebhookBody_SendsNull(url, events, is_active) ==
    ("url" :> url) @@ ("events" :> events) @@ ("isActive" :> is_active)

UpdateWebhookBody(url, events, is_active) ==
    LET d0 == EmptyDict
        d1 == IF url # PyNone THEN SetItem(d0, "url", url) ELSE d0
        d2 == IF events # PyNone THEN SetItem(d1, "events", events) ELSE d1
        d3 == IF is_active # PyNone THEN SetItem(d2, "isActive", is_active) ELSE d2
    IN  d3

(* Calls of update_webhook: every subset of the three fields, and calls    *)
(* that pass None, "", [] or False.                                        *)
UpdateWebhookArgs ==
    {[url |-> url, events |-> events, is_active |-> is_active] :
        url \in Supplied(WebhookUrl), events \in Supplied(WebhookEvents),
        is_active \in Supplied(PyBool(TRUE))}
    \cup {[url |-> PyStr(""), events |-> PyList(<<>>), is_active |-> PyBool(FALSE)],
          [url |-> PyStr(""), events |-> PyNone, is_active |-> Missing],
          [url |-> PyNone, events |-> PyList(<<>>), is_active |-> PyNone],
          [url |-> Missing, events |-> Missing, is_active |-> PyBool(FALSE)]}

update_webhook ==
    \E webhook_id \in Ids, a \in UpdateWebhookArgs :
        /\ Invoke("update_webhook", "/webhooks/" \o webhook_id,
                  [webhook_id |-> PyStr(webhook_id)] @@ a)
        /\ request("PATCH", "/webhooks/" \o webhook_id,
                   "json" :> PyDict(UpdateWebhookBody(
                       Default(a.url, PyNone), Default(a.events, PyNone),
                       Default(a.is_active, PyNone))))

delete_webhook ==
    \E webhook_id \in Ids :
        /\ Invoke("delete_webhook", "/webhooks/" \o webhook_id,
                  [webhook_id |-> PyStr(webhook_id)])
        /\ request("DELETE", "/webhooks/" \o webhook_id, EmptyDict)

Next ==
    \/ search_facts
    \/ get_fact
    \/ get_sources
    \/ get_source
    \/ get_categories
    \/ get_category
    \/ get_category_tree
    \/ get_trust_metrics
    \/ batch_trust_metrics
    \/ get_platform_stats
    \/ list_webhooks
    \/ create_webhook
    \/ get_webhook
    \/ update_webhook
    \/ delete_webhook

Spec == Init /\ [][Next]_vars

(***************************************************************************)
(* Observations on the last exchange                                       *)
(***************************************************************************)
(* The transport decoded a JSON object (an envelope). *)
HasEnvelope == response[1] = "json" /\ IsDict(response[2])

(* The decoded envelope, when HasEnvelope. *)
Env == response[2][2]

(* The query parameters or JSON body handed to session.request. *)
Outgoing ==
    IF "params" \in DOMAIN last_request.kwargs THEN last_request.kwargs["params"][2]
    ELSE IF "json" \in DOMAIN last_request.kwargs THEN last_request.kwargs["json"][2]
    ELSE EmptyDict

(* The value a parameter of the last call is bound to (None by default). *)
Arg(name) == Default(last_call.args[name], PyNone)

(* <<parameter, outgoing key>> of the Optional[...] parameters of a method. *)
OptionalParams(op) ==
    CASE op = "search_facts" ->
            {<<"q", "q">>, <<"status", "status">>, <<"category", "category">>, <<"sort", "sort">>}
      [] op = "get_sources" ->
            {<<"fact_id", "factId">>, <<"source_type", "type">>,
             <<"min_credibility", "minCredibility">>}
      [] op = "get_categories" -> {<<"q", "q">>, <<"parent", "parent">>}
      [] op = "update_webhook" ->
            {<<"url", "url">>, <<"events", "events">>, <<"is_active", "isActive">>}
      [] OTHER -> {}

(* The optional parameters the code tests with `is not None`. *)
NotNoneTested == {<<"min_credibility", "minCredibility">>, <<"url", "url">>,
                  <<"events", "events">>, <<"is_active", "isActive">>}

(***************************************************************************)
(* C1: when the decoded envelope has success = false and an error object   *)
(* with both code and message, the operation raises PurFactedError with    *)
(* exactly that code and that message, and returns nothing.                *)
(***************************************************************************)
C1_Case ==
    /\ HasEnvelope
    /\ Get(Env, "success", Missing) = PyBool(FALSE)
    /\ "error" \in DOMAIN Env
    /\ IsDict(Env["error"])
    /\ {"code", "message"} \subseteq DOMAIN Env["error"][2]

C1_ErrorCarriesEnvelopeValues ==
    C1_Case => outcome = Raise(PurFactedError(Env["error"][2]["code"],
                                              Env["error"][2]["message"]))

C1_Witness ==
    /\ C1_Case
    /\ "data" \in DOMAIN Env
    /\ outcome[1] = "raise"
    /\ outcome[2].code = ErrCode

(***************************************************************************)
(* C2 (as stated): when the envelope has success = true, the value handed  *)
(* to the caller is the envelope's data payload.                           *)
(***************************************************************************)
C2_Case ==
    /\ HasEnvelope
    /\ Get(Env, "success", Missing) = PyBool(TRUE)

C2_ReturnsDataPayload ==
    C2_Case => outcome = Return(Get(Env, "data", PyNone))

(***************************************************************************)
(* C2 (amended): when the envelope has success = true, the operation       *)
(* returns the whole decoded envelope unchanged, so the data payload is    *)
(* found unchanged under the result's "data" key; no error is raised.      *)
(***************************************************************************)
C2_ReturnsEnvelopeUnchanged ==
    C2_Case =>
        /\ outcome = Return(response[2])
        /\ "data" \in DOMAIN Env => outcome[2][2]["data"] = Env["data"]

C2_Witness ==
    /\ C2_Case
    /\ last_call.op = "search_facts"
    /\ Get(Env, "data", PyNone) = Payload
    /\ outcome[1] = "return"
    /\ Len(outcome[2][2]["data"][2]["facts"][2]) = 1

(***************************************************************************)
(* C3: when success = false and the envelope has no error key, the raised  *)
(* error is exactly ("UNKNOWN", "Unknown error"); when the error object    *)
(* lacks one of code / message, that field alone takes its default and the *)
(* other is carried through.                                               *)
(***************************************************************************)
C3_Case ==
    /\ HasEnvelope
    /\ Get(Env, "success", Missing) = PyBool(FALSE)

C4_OmitsEveryFalsyOptional ==
    \A p \in OptionalParams(last_call.op) :
        p[2] \in DOMAIN Outgoing => Truthy(Arg(p[1]))

(***************************************************************************)
(* C4 (amended): the string filters q, status, category, sort, fact_id,    *)
(* source_type and parent are sent exactly when their argument is truthy;  *)
(* min_credibility, url, events and is_active are sent exactly when their  *)
(* argument is not None (0, "", [] and False are sent); a sent key carries *)
(* the argument's value.                                                   *)
(***************************************************************************)
C4_OmitsByParameterRule ==
    \A p \in OptionalParams(last_call.op) :
        /\ p[2] \in DOMAIN Outgoing <=>
              IF p \in NotNoneTested THEN Arg(p[1]) # PyNone ELSE Truthy(Arg(p[1]))
        /\ p[2] \in DOMAIN Outgoing => Outgoing[p[2]] = Arg(p[1])

C4_Witness ==
    /\ last_call.op = "get_sources"
    /\ last_call.args["fact_id"] = PyStr("")
    /\ last_call.args["min_credibility"] = PyInt(0)
    /\ "factId" \notin DOMAIN Outgoing
    /\ Outgoing["minCredibility"] = PyInt(0)

(***************************************************************************)
(* C5: the PATCH body of update_webhook has exactly the keys among url,    *)
(* events, isActive whose argument was provided, with the caller's values; *)
(* an untouched argument is absent (not null); with no argument provided   *)
(* the body is the empty object.                                           *)
(***************************************************************************)
C5_Provided(name) == last_call.args[name] \notin {Missing, PyNone}

C5_BodyHasExactlyProvidedFields ==
    last_call.op = "update_webhook" =>
        /\ last_request.method = "PATCH"
        /\ DOMAIN last_request.kwargs = {"json"}
        /\ LET body == last_request.kwargs["json"][2] IN
           /\ DOMAIN body = {p[2] : p \in {q \in OptionalParams("update_webhook") :
                                              C5_Provided(q[1])}}
           /\ \A p \in OptionalParams("update_webhook") :
                 C5_Provided(p[1]) => body[p[2]] = last_call.args[p[1]]
           /\ \A k \in DOMAIN body : body[k] # PyNone
           /\ (\A p \in OptionalParams("update_webhook") : ~C5_Provided(p[1]))
                 => last_request.kwargs["json"] = PyDict(EmptyDict)

C5_Witness ==
    /\ last_call.op = "update_webhook"
    /\ last_call.args["url"] = Missing
    /\ last_call.args["events"] = Missing
    /\ last_call.args["is_active"] = PyBool(FALSE)
    /\ last_request.kwargs["json"] = PyDict("isActive" :> PyBool(FALSE))

(***************************************************************************)
(* C6: the query of search_facts has exactly the keys page and limit (1    *)
(* and 20 when not supplied) plus the filters among q, status, category,   *)
(* sort that were supplied with a non-empty value, each with the caller's  *)
(* value; an omitted filter is not sent as empty or null.                  *)
(***************************************************************************)
C6_Filters == {"q", "status", "category", "sort"}

C6_QueryIsPaginationPlusFilters ==
    last_call.op = "search_facts" =>
        /\ last_request.method = "GET"
        /\ DOMAIN last_request.kwargs = {"params"}
        /\ LET params == last_request.kwargs["params"][2]
               args == last_call.args
           IN
           /\ DOMAIN params = {"page", "limit"} \cup
                  {f \in C6_Filters : args[f] \notin {Missing, PyNone, PyStr("")}}
           /\ \A f \in C6_Filters : f \in DOMAIN params => params[f] = args[f]
           /\ params["page"] = (IF args["page"] = Missing THEN PyInt(1) ELSE args["page"])
           /\ params["limit"] = (IF args["limit"] = Missing THEN PyInt(20) ELSE args["limit"])
           /\ \A k \in DOMAIN params : params[k] \notin {PyNone, PyStr("")}

C6_Witness ==
    /\ last_call.op = "search_facts"
    /\ \A f \in C6_Filters : last_call.args[f] = Missing
    /\ last_call.args["page"] = Missing
    /\ last_request.kwargs["params"] = PyDict(("page" :> PyInt(1)) @@ ("limit" :> PyInt(20)))

(***************************************************************************)
(* C7: the API key and the base URL never change after construction, and   *)
(* every outbound request carries X-API-Key equal to the construction-time *)
(* key, Content-Type: application/json, and the construction-time base URL *)
(* followed by the operation's path, whatever the earlier outcomes were.   *)
(***************************************************************************)
C7_ConfigurationFixed ==
    /\ api_key = ctor.api_key
    /\ base_url = ctor.base_url
    /\ calls > 0 =>
          /\ DOMAIN last_request.headers = {"X-API-Key", "Content-Type"}
          /\ last_request.headers["X-API-Key"] = ctor.api_key
          /\ last_request.headers["Content-Type"] = "application/json"
          /\ last_request.url = ctor.base_url \o last_call.endpoint

C7_Witness ==
    /\ calls = 2
    /\ ctor.base_url # DefaultBaseUrl
    /\ ctor.api_key = "key_B"
    /\ outcome[1] = "raise"
    /\ last_request.url = "http://localhost:3000/api/v1/webhooks/id1"
    /\ last_request.headers["X-API-Key"] = "key_B"

(***************************************************************************)
(* C8: every invocation of an operation issues exactly one outbound call,  *)
(* whether it returns, raises PurFactedError or fails in the transport:    *)
(* after n invocations exactly n requests have been made.                  *)
(***************************************************************************)
C8_OneRequestPerInvocation == sent = calls

C8_Witness ==
    /\ calls = 2
    /\ sent = 2
    /\ outcome[1] = "raise"
    /\ outcome[2].type = "PurFactedError"

(***************************************************************************)
(* C9: when the HTTP call fails or the body is not JSON, the operation     *)
(* ends with that same transport failure; it neither raises PurFactedError *)
(* nor returns a value.                                                    *)
(***************************************************************************)
C9_TransportFaultPropagates ==
    response[1] = "fault" =>
        /\ outcome = Raise(OtherError(response[2]))
        /\ outcome[2].type # "PurFactedError"

C9_Witness ==
    /\ calls > 0
    /\ response = Fault("JSONDecodeError")
    /\ outcome = Raise(OtherError("JSONDecodeError"))

(***************************************************************************)
(* C10: an envelope is returned if and only if its success field is        *)
(* present and truthy; for every envelope whose success is missing, null,  *)
(* false or otherwise falsy the operation raises PurFactedError, even when *)
(* the envelope carries a data payload.                                    *)
(***************************************************************************)
C10_FalsySuccessRaisesTypedError ==
    HasEnvelope =>
        LET ok == "success" \in DOMAIN Env /\ Truthy(Env["success"]) IN
        /\ outcome[1] = "return" <=> ok
        /\ ~ok => (outcome[1] = "raise" /\ outcome[2].type = "PurFactedError")

====
